---- MODULE Spec2Model ----
(***************************************************************************)
(* Model of the M/M/c queue analyzer (src/queue_analyzer.py): the three    *)
(* request handlers analyze_queue, simulate_queue and                      *)
(* get_state_probabilities, the helpers calculate_p0 and                   *)
(* calculate_erlang_c, and the process-wide numpy generator the simulation *)
(* draws from.                                                             *)
(*                                                                         *)
(* Floating-point values are modelled as exact rationals <<n, d>> in       *)
(* lowest terms with d > 0; float('inf') is <<1, 0>>.  What Python turns   *)
(* into an exception is modelled as that exception: a float division by    *)
(* zero, a negative scale handed to numpy, min() of an empty range,        *)
(* factorial of a negative number, and the conversion of an int too large  *)
(* for a double (math.factorial(n) for n > 170) in "float / int".          *)
(* Rounding is not modelled, nor the range of math.pow, which the rates    *)
(* and state counts drawn here stay well inside.                           *)
(*                                                                         *)
(* The handlers are coroutines without an await: each runs to its end      *)
(* before another starts.  simulate_queue is followed loop pass by loop    *)
(* pass (pc); the closed-form handlers are single steps.                   *)
(***************************************************************************)
EXTENDS Integers, Sequences, FiniteSets, TLC

\* ------------------------------------------------------------------ bounds

\* Rates lambda_rate and mu_rate are drawn from -1..MaxRate.
MaxRate == 2
\* Server counts are drawn from -1..MaxServers, plus LargeServers for the
\* closed-form handlers.
MaxServers == 3
LargeServers == 171
\* simulation_time is drawn from 0..MaxHorizon.
MaxHorizon == 2
\* max_states is drawn from 0..MaxStates.
MaxStates == 3
\* The generator's stream: RngPeriod standard-exponential draws in 0..MaxDraw,
\* repeated cyclically.
RngPeriod == 2
MaxDraw == 2

\* The largest n for which math.factorial(n) still converts to a double
\* (170! ~ 7.3e306 < 1.8e308 < 171!).
MaxFactorialArg == 170

Rates == -1..MaxRate
Servers == -1..MaxServers
Horizons == 0..MaxHorizon
StateBounds == 0..MaxStates

\* ------------------------------------------------------- float arithmetic

Abs(x) == IF x < 0 THEN -x ELSE x

RECURSIVE GCD(_, _)
GCD(m, n) == IF n = 0 THEN m ELSE GCD(n, m % n)

\* The float n/d (d # 0), in lowest terms with a positive denominator.
Rat(n, d) ==
    LET g == GCD(Abs(n), Abs(d))
        s == IF d < 0 THEN -1 ELSE 1
    IN  <<(s * n) \div g, (s * d) \div g>>

Float(i) == <<i, 1>>
Zero == Float(0)
One == Float(1)
\* float('inf')
Inf == <<1, 0>>
\* A local that has not been assigned.
Unset == <<0, 0>>

RAdd(x, y) == Rat(x[1] * y[2] + y[1] * x[2], x[2] * y[2])
RSub(x, y) == Rat(x[1] * y[2] - y[1] * x[2], x[2] * y[2])
RMul(x, y) == Rat(x[1] * y[1], x[2] * y[2])
\* x / y for y # 0 (Python raises ZeroDivisionError for y = 0: the callers
\* test for it first).
RDiv(x, y) == Rat(x[1] * y[2], x[2] * y[1])
RLt(x, y) == x[1] * y[2] < y[1] * x[2]
RLe(x, y) == x[1] * y[2] <= y[1] * x[2]
RMax(x, y) == IF RLt(x, y) THEN y ELSE x

\* math.pow(a, k) for an integral k >= 0 (math.pow(0.0, 0) is 1.0).
RECURSIVE Pow(_, _)
Pow(a, k) == IF k = 0 THEN One ELSE RMul(a, Pow(a, k - 1))

\* math.factorial(n) for n >= 0: a Python int.
RECURSIVE factorial(_)
factorial(n) == IF n = 0 THEN 1 ELSE n * factorial(n - 1)

\* "float / factorial(n)" converts the int to a double first and raises
\* OverflowError when it does not fit.
FactorialOverflows(n) == n > MaxFactorialArg

\* A helper's outcome: the exception it raises ("" for none) and its value.
Raise(e) == [err |-> e, val |-> Unset]
Return(v) == [err |-> "", val |-> v]

\* ------------------------------------------------------------ calculate_p0

RECURSIVE SumTerm(_, _)
\* sum(math.pow(a, k) / factorial(k) for k in range(c))
SumTerm(a, c) ==
    IF c <= 0 THEN Zero
    ELSE RAdd(SumTerm(a, c - 1), RDiv(Pow(a, c - 1), Float(factorial(c - 1))))

\* (math.pow(a, c) / factorial(c)) * (c / (c - a)), for 0 <= c, c # a
LastTerm(a, c) ==
    RMul(RDiv(Pow(a, c), Float(factorial(c))), RDiv(Float(c), RSub(Float(c), a)))

calculate_p0(a, c) ==
    IF c < 0 THEN Raise("ValueError")
    ELSE IF FactorialOverflows(c) THEN Raise("OverflowError")
    ELSE IF a = Float(c) THEN Raise("ZeroDivisionError")
    ELSE IF RAdd(SumTerm(a, c), LastTerm(a, c)) = Zero THEN Raise("ZeroDivisionError")
    ELSE Return(RDiv(One, RAdd(SumTerm(a, c), LastTerm(a, c))))

\* ------------------------------------------------------ calculate_erlang_c

calculate_erlang_c(a, c, rho) ==
    IF RLe(One, rho) THEN Return(One)
    ELSE IF calculate_p0(a, c).err # "" THEN calculate_p0(a, c)
    ELSE Return(RDiv(RMul(RDiv(Pow(a, c), Float(factorial(c))), calculate_p0(a, c).val),
                     RSub(One, rho)))

\* ------------------------------------------------------------------- state

VARIABLES
    pc,                  \* "idle", the simulation's loops "gen" and "serve", "done"
    op,                  \* the handler that ran last or is running
    params,              \* its request parameters
    response,            \* what it answered: HTTP status and detail
    metrics,             \* analyze_queue / get_state_probabilities: locals and fields
    probabilities,       \* get_state_probabilities: the list of states
    arrivals,            \* simulate_queue: arrival times
    current_time,        \* simulate_queue: the arrival clock
    servers_busy_until,  \* simulate_queue: each server's free-time
    wait_times,          \* simulate_queue: realized waits
    sim_result,          \* simulate_queue: the returned dict
    rng,                 \* numpy's process-wide generator state
    prev_run             \* history: the last simulation answered (SpecRepeat only)

vars == <<pc, op, params, response, metrics, probabilities, arrivals, current_time,
          servers_busy_until, wait_times, sim_result, rng, prev_run>>

\* QueueParameters, with get_state_probabilities' max_states.
QueueParameters(lam, mu, c, sim_time, max_states) ==
    [lambda_rate |-> lam, mu_rate |-> mu, c_servers |-> c,
     simulation_time |-> sim_time, max_states |-> max_states]

NoResponse == [status |-> 0, detail |-> ""]
Ok == [status |-> 200, detail |-> ""]
\* raise HTTPException(status_code=400, detail=...)
HTTPException(detail) == [status |-> 400, detail |-> detail]
\* An exception the handler does not catch.
Uncaught(e) == [status |-> 500, detail |-> e]

\* QueueMetrics, before any of it is computed.
NoMetrics ==
    [rho |-> Unset, traffic_intensity |-> Unset, p0 |-> Unset, erlang_c |-> Unset,
     lq |-> Unset, wq |-> Unset, l |-> Unset, w |-> Unset, utilization |-> Unset,
     stable |-> FALSE]

NoSimResult ==
    [total_arrivals |-> 0, total_served |-> 0, avg_wait_time_minutes |-> Unset,
     max_wait_time_minutes |-> Unset, wait_times_sample |-> <<>>]

\* ----------------------------------------------------------- analyze_queue

\* A validation that forgets the server count.
ParametersInvalidRatesOnly(lam, mu, c) == lam <= 0 \/ mu <= 0

\* if lam <= 0 or mu <= 0 or c <= 0
ParametersInvalid(lam, mu, c) == lam <= 0 \/ mu <= 0 \/ c <= 0

\* A stability test that lets rho = 1 through.
StableUpToOne(rho) == RLe(rho, One)

\* stable = rho < 1.0
Stable(rho) == RLt(rho, One)

\* The unstable system's QueueMetrics.
UnstableMetrics(rho, traffic_intensity) ==
    [rho |-> rho, traffic_intensity |-> traffic_intensity, p0 |-> Zero,
     erlang_c |-> One, lq |-> Inf, wq |-> Inf, l |-> Inf, w |-> Inf,
     utilization |-> RMul(rho, Float(100)), stable |-> FALSE]

\* The stable system's QueueMetrics from p0 and erlang_c.
StableMetrics(lam, mu, c, rho, traffic_intensity, p0, erlang_c) ==
    LET wq == RMul(RDiv(erlang_c, Float(c * mu - lam)), Float(60))
        lq == RMul(Float(lam), RDiv(wq, Float(60)))
        w == RAdd(wq, RDiv(Float(60), Float(mu)))
        l == RMul(Float(lam), RDiv(w, Float(60)))
    IN  [rho |-> rho, traffic_intensity |-> traffic_intensity, p0 |-> p0,
         erlang_c |-> erlang_c, lq |-> lq, wq |-> wq, l |-> l, w |-> w,
         utilization |-> RMul(rho, Float(100)), stable |-> TRUE]

\* The handler's answer and the locals it has assigned by then.
AnalyzeQueue(lam, mu, c) ==
    IF ParametersInvalid(lam, mu, c)
    THEN [response |-> HTTPException("Parameters must be positive"), metrics |-> NoMetrics]
    ELSE IF c * mu = 0
    THEN \* rho = lam / (c * mu) divides by zero
         [response |-> Uncaught("ZeroDivisionError"), metrics |-> NoMetrics]
    ELSE
    LET rho == Rat(lam, c * mu)
        traffic_intensity == Rat(lam, mu)
        locals == [NoMetrics EXCEPT !.rho = rho, !.traffic_intensity = traffic_intensity,
                                    !.stable = Stable(rho)]
        p0 == calculate_p0(traffic_intensity, c)
        erlang_c == calculate_erlang_c(traffic_intensity, c, rho)
    IN  IF ~locals.stable
        THEN [response |-> Ok, metrics |-> UnstableMetrics(rho, traffic_intensity)]
        ELSE IF p0.err # ""
        THEN [response |-> Uncaught(p0.err), metrics |-> locals]
        ELSE IF c * mu - lam = 0
        THEN [response |-> Uncaught("ZeroDivisionError"),
              metrics |-> [locals EXCEPT !.p0 = p0.val, !.erlang_c = erlang_c.val]]
        ELSE [response |-> Ok,
              metrics |-> StableMetrics(lam, mu, c, rho, traffic_intensity,
                                        p0.val, erlang_c.val)]

analyze_queue(lam, mu, c) ==
    /\ pc = "idle"
    /\ op' = "analyze"
    /\ params' = QueueParameters(lam, mu, c, 0, 0)
    /\ response' = AnalyzeQueue(lam, mu, c).response
    /\ metrics' = AnalyzeQueue(lam, mu, c).metrics
    /\ probabilities' = <<>>
    /\ arrivals' = <<>>
    /\ current_time' = Zero
    /\ servers_busy_until' = <<>>
    /\ wait_times' = <<>>
    /\ sim_result' = NoSimResult
    /\ pc' = "done"
    /\ UNCHANGED <<rng, prev_run>>

\* ------------------------------------------------- get_state_probabilities

\* A refusal that lets rho = 1 through.
UnstableAboveOne(rho) == RLt(One, rho)

\* if rho >= 1.0
Unstable(rho) == RLe(One, rho)

\* The entry of state n.
StateEntry(a, c, p0, n) ==
    [state |-> n,
     probability |->
        IF n < c
        THEN RMul(RDiv(Pow(a, n), Float(factorial(n))), p0)
        ELSE RMul(RDiv(Pow(a, n), RMul(Float(factorial(c)), Pow(Float(c), n - c))), p0),
     customers_in_queue |-> IF n - c > 0 THEN n - c ELSE 0]

\* for n in range(max_states + 1): probabilities.append(...)
StateEntries(a, c, p0, max_states) ==
    [i \in 1..(max_states + 1) |-> StateEntry(a, c, p0, i - 1)]

GetStateProbabilities(lam, mu, c, max_states) ==
    IF mu = 0 \/ c * mu = 0
    THEN [response |-> Uncaught("ZeroDivisionError"), metrics |-> NoMetrics,
          probabilities |-> <<>>]
    ELSE
    LET a == Rat(lam, mu)
        rho == Rat(lam, c * mu)
        locals == [NoMetrics EXCEPT !.rho = rho, !.traffic_intensity = a]
        p0 == calculate_p0(a, c)
    IN  IF Unstable(rho)
        THEN [response |-> HTTPException("System is unstable (rho >= 1)"),
              metrics |-> locals, probabilities |-> <<>>]
        ELSE IF p0.err # ""
        THEN [response |-> Uncaught(p0.err), metrics |-> locals, probabilities |-> <<>>]
        ELSE [response |-> Ok, metrics |-> [locals EXCEPT !.p0 = p0.val],
              probabilities |-> StateEntries(a, c, p0.val, max_states)]

get_state_probabilities(lam, mu, c, max_states) ==
    /\ pc = "idle"
    /\ op' = "state_probabilities"
    /\ params' = QueueParameters(lam, mu, c, 0, max_states)
    /\ response' = GetStateProbabilities(lam, mu, c, max_states).response
    /\ metrics' = GetStateProbabilities(lam, mu, c, max_states).metrics
    /\ probabilities' = GetStateProbabilities(lam, mu, c, max_states).probabilities
    /\ arrivals' = <<>>
    /\ current_time' = Zero
    /\ servers_busy_until' = <<>>
    /\ wait_times' = <<>>
    /\ sim_result' = NoSimResult
    /\ pc' = "done"
    /\ UNCHANGED <<rng, prev_run>>

\* ---------------------------------------------------------- simulate_queue

\* The generator's next standard-exponential variate, and its state after
\* the draw.
Draw(g) == Head(g)
Advance(g) == Append(Tail(g), Head(g))

\* np.random.exponential(scale) for scale >= 0: scale times the variate.
Exponential(scale, g) == RMul(scale, Float(Draw(g)))

\* An arrival test that keeps the arrival landing on the horizon.
RecordArrivalUpTo(t, sim_time) == RLe(t, Float(sim_time))

\* if current_time < sim_time: arrivals.append(current_time)
RecordArrival(t, sim_time) == RLt(t, Float(sim_time))

\* A selection that takes the last of the minimal free-times.
LastEarliestServer(busy, c) ==
    CHOOSE i \in 1..c :
        \A j \in 1..c : /\ RLe(busy[i], busy[j])
                        /\ (busy[j] = busy[i] => i >= j)

\* A selection without its key: min(range(c)).
FirstServer(busy, c) == 1

\* min(range(c), key=lambda i: servers_busy_until[i]): the first index of
\* a minimal free-time (c > 0).
EarliestServer(busy, c) ==
    CHOOSE i \in 1..c :
        \A j \in 1..c : /\ RLe(busy[i], busy[j])
                        /\ (busy[j] = busy[i] => i <= j)

\* service_start = max(arrival_time, servers_busy_until[earliest_server])
ServiceStart(arrival_time, busy_until) == RMax(arrival_time, busy_until)

RECURSIVE SumOf(_)
SumOf(ws) == IF ws = <<>> THEN Zero ELSE RAdd(Head(ws), SumOf(Tail(ws)))

RECURSIVE MaxOf(_)
MaxOf(ws) == IF Len(ws) = 1 THEN ws[1] ELSE RMax(Head(ws), MaxOf(Tail(ws)))

\* np.mean(wait_times) * 60 if wait_times else 0
AvgWait(ws) ==
    IF ws = <<>> THEN Zero ELSE RMul(RDiv(SumOf(ws), Float(Len(ws))), Float(60))

\* np.max(wait_times) * 60 if wait_times else 0
MaxWait(ws) == IF ws = <<>> THEN Zero ELSE RMul(MaxOf(ws), Float(60))

\* [w * 60 for w in wait_times[:10]]
WaitTimesSample(ws) ==
    [i \in 1..(IF Len(ws) < 10 THEN Len(ws) ELSE 10) |-> RMul(ws[i], Float(60))]

\* The returned dict.
SimResult(arr, ws) ==
    [total_arrivals |-> Len(arr), total_served |-> Len(ws),
     avg_wait_time_minutes |-> AvgWait(ws), max_wait_time_minutes |-> MaxWait(ws),
     wait_times_sample |-> WaitTimesSample(ws)]

\* The handler is entered: arrivals = [], current_time = 0.
simulate_queue(lam, mu, c, sim_time) ==
    /\ pc = "idle"
    /\ pc' = "gen"
    /\ op' = "simulate"
    /\ params' = QueueParameters(lam, mu, c, sim_time, 0)
    /\ response' = NoResponse
    /\ metrics' = NoMetrics
    /\ probabilities' = <<>>
    /\ arrivals' = <<>>
    /\ current_time' = Zero
    /\ servers_busy_until' = <<>>
    /\ wait_times' = <<>>
    /\ sim_result' = NoSimResult
    /\ UNCHANGED <<rng, prev_run>>

\* The handler ends in an exception it does not catch.
Fail(e) ==
    /\ pc' = "done"
    /\ response' = Uncaught(e)

\* One pass of "while current_time < sim_time".
GenerateArrival ==
    /\ pc = "gen"
    /\ RLt(current_time, Float(params.simulation_time))
    /\ IF params.lambda_rate = 0
       THEN /\ Fail("ZeroDivisionError")
            /\ UNCHANGED <<current_time, arrivals, rng>>
       ELSE IF params.lambda_rate < 0
       THEN /\ Fail("ValueError")
            /\ UNCHANGED <<current_time, arrivals, rng>>
       ELSE /\ current_time' =
                   RAdd(current_time, Exponential(Rat(1, params.lambda_rate), rng))
            /\ rng' = Advance(rng)
            /\ arrivals' = IF RecordArrival(current_time', params.simulation_time)
                           THEN Append(arrivals, current_time')
                           ELSE arrivals
            /\ UNCHANGED <<pc, response>>
    /\ UNCHANGED <<op, params, metrics, probabilities, servers_busy_until, wait_times,
                   sim_result, prev_run>>

\* The while loop ends: servers_busy_until = [0.0] * c, wait_times = [].
ArrivalsDone ==
    /\ pc = "gen"
    /\ ~RLt(current_time, Float(params.simulation_time))
    /\ pc' = "serve"
    /\ servers_busy_until' = [i \in 1..params.c_servers |-> Zero]
    /\ wait_times' = <<>>
    /\ UNCHANGED <<op, params, response, metrics, probabilities, arrivals, current_time,
                   sim_result, rng, prev_run>>

\* One pass of "for arrival_time in arrivals".
ServeArrival ==
    /\ pc = "serve"
    /\ Len(wait_times) < Len(arrivals)
    /\ LET c == params.c_servers
           arrival_time == arrivals[Len(wait_times) + 1]
           earliest_server == EarliestServer(servers_busy_until, c)
           service_start ==
               ServiceStart(arrival_time, servers_busy_until[earliest_server])
           wait_time == RSub(service_start, arrival_time)
           service_duration == Exponential(Rat(1, params.mu_rate), rng)
       IN  IF c <= 0
           THEN /\ Fail("ValueError")
                /\ UNCHANGED <<wait_times, servers_busy_until, rng>>
           ELSE /\ wait_times' = Append(wait_times, wait_time)
                /\ IF params.mu_rate = 0
                   THEN /\ Fail("ZeroDivisionError")
                        /\ UNCHANGED <<servers_busy_until, rng>>
                   ELSE IF params.mu_rate < 0
                   THEN /\ Fail("ValueError")
                        /\ UNCHANGED <<servers_busy_until, rng>>
                   ELSE /\ servers_busy_until' =
                               [servers_busy_until EXCEPT
                                   ![earliest_server] = RAdd(service_start, service_duration)]
                        /\ rng' = Advance(rng)
                        /\ UNCHANGED <<pc, response>>
    /\ UNCHANGED <<op, params, metrics, probabilities, arrivals, current_time, sim_result,
                   prev_run>>

\* The for loop ends: the aggregates and the returned dict.
SimulateReturn ==
    /\ pc = "serve"
    /\ Len(wait_times) = Len(arrivals)
    /\ pc' = "done"
    /\ response' = Ok
    /\ sim_result' = SimResult(arrivals, wait_times)
    /\ UNCHANGED <<op, params, metrics, probabilities, arrivals, current_time,
                   servers_busy_until, wait_times, rng, prev_run>>

\* ------------------------------------------------------------ after a handler

\* The handler's frame is gone once its answer is sent: of all the state above
\* only the module-level generator outlives the request.
Discard ==
    /\ pc = "done"
    /\ pc' = "idle"
    /\ op' = "none"
    /\ params' = QueueParameters(0, 0, 0, 0, 0)
    /\ response' = NoResponse
    /\ metrics' = NoMetrics
    /\ probabilities' = <<>>
    /\ arrivals' = <<>>
    /\ current_time' = Zero
    /\ servers_busy_until' = <<>>
    /\ wait_times' = <<>>
    /\ sim_result' = NoSimResult
    /\ UNCHANGED rng

Respond ==
    /\ Discard
    /\ UNCHANGED prev_run

NoRun == [params |-> QueueParameters(0, 0, 0, 0, 0), sim_result |-> NoSimResult]

\* Respond, remembering the simulation that was answered.
RespondRecorded ==
    /\ Discard
    /\ prev_run' = IF op = "simulate" /\ response = Ok
                   THEN [params |-> params, sim_result |-> sim_result]
                   ELSE prev_run

\* --------------------------------------------------------- the specification

\* The generator's streams: RngPeriod draws, not all of them zero.
Streams == {g \in [1..RngPeriod -> 0..MaxDraw] : \E i \in 1..RngPeriod : g[i] > 0}

Init ==
    /\ pc = "idle"
    /\ op = "none"
    /\ params = QueueParameters(0, 0, 0, 0, 0)
    /\ response = NoResponse
    /\ metrics = NoMetrics
    /\ probabilities = <<>>
    /\ arrivals = <<>>
    /\ current_time = Zero
    /\ servers_busy_until = <<>>
    /\ wait_times = <<>>
    /\ sim_result = NoSimResult
    /\ rng \in Streams
    /\ prev_run = NoRun

Analyze == \E lam \in Rates, mu \in Rates, c \in Servers \cup {LargeServers} :
    analyze_queue(lam, mu, c)

Simulate == \E lam \in Rates, mu \in Rates, c \in Servers, sim_time \in Horizons :
    simulate_queue(lam, mu, c, sim_time)

StateProbabilities ==
    \E lam \in Rates, mu \in Rates, c \in Servers \cup {LargeServers},
       max_states \in StateBounds :
        get_state_probabilities(lam, mu, c, max_states)

Next ==
    \/ Analyze
    \/ StateProbabilities
    \/ Simulate
    \/ GenerateArrival
    \/ ArrivalsDone
    \/ ServeArrival
    \/ SimulateReturn
    \/ Respond

Spec == Init /\ [][Next]_vars

\* The same process answering simulations only, each answered simulation
\* remembered for the next one to be compared with.
SimulateValid ==
    \E lam \in 1..MaxRate, mu \in 1..MaxRate, c \in 1..MaxServers, sim_time \in Horizons :
        simulate_queue(lam, mu, c, sim_time)

NextRepeat ==
    \/ SimulateValid
    \/ GenerateArrival
    \/ ArrivalsDone
    \/ ServeArrival
    \/ SimulateReturn
    \/ RespondRecorded

SpecRepeat == Init /\ [][NextRepeat]_vars

\* ------------------------------------------------------------------ claims

\* The request's parameters are valid: lambda > 0, mu > 0, c > 0.
Valid == params.lambda_rate > 0 /\ params.mu_rate > 0 /\ params.c_servers > 0

\* For a valid request, rho = lambda / (c mu) is below 1.
RhoBelowOne == params.lambda_rate < params.c_servers * params.mu_rate

\* rho = lambda / (c mu) is defined and at least 1, whatever the signs.
RhoAtLeastOne ==
    LET cmu == params.c_servers * params.mu_rate
    IN  \/ cmu > 0 /\ params.lambda_rate >= cmu
        \/ cmu < 0 /\ params.lambda_rate <= cmu

Answered(handler) == pc = "done" /\ op = handler

InvalidParameterError == HTTPException("Parameters must be positive")
UnstableSystemError == HTTPException("System is unstable (rho >= 1)")

\* C1: analyze with valid parameters and rho >= 1 does not fail: it answers
\* with stable = false, p0 = 0, erlang_c = 1 and lq = wq = l = w = +inf; and
\* for every valid request the stable flag is true exactly when rho < 1.
C1_UnstableIsAnAnswer ==
    (Answered("analyze") /\ Valid) =>
        /\ metrics.stable <=> RhoBelowOne
        /\ ~RhoBelowOne =>
              /\ response = Ok
              /\ response # InvalidParameterError
              /\ metrics.p0 = Zero
              /\ metrics.erlang_c = One
              /\ metrics.lq = Inf /\ metrics.wq = Inf
              /\ metrics.l = Inf /\ metrics.w = Inf

C1_Witness ==
    /\ Answered("analyze") /\ Valid /\ ~RhoBelowOne
    /\ response = Ok /\ ~metrics.stable /\ metrics.w = Inf

\* C2: analyze with lambda <= 0, mu <= 0 or c <= 0 fails with
\* InvalidParameterError before anything is computed: no rho, p0 or other
\* metric is assigned and no metrics are returned.
C2_InvalidRejectedFirst ==
    (Answered("analyze") /\ ~Valid) =>
        /\ response = InvalidParameterError
        /\ metrics = NoMetrics

C2_Witness ==
    /\ Answered("analyze")
    /\ params.lambda_rate > 0 /\ params.mu_rate = 0 /\ params.c_servers <= 0
    /\ response = InvalidParameterError

\* C3: stateDistribution with rho >= 1 fails with UnstableSystemError and
\* returns no distribution; with rho < 1 it never raises UnstableSystemError.
C3_UnstableRefused ==
    Answered("state_probabilities") =>
        /\ RhoAtLeastOne => response = UnstableSystemError /\ probabilities = <<>>
        /\ ~RhoAtLeastOne => response # UnstableSystemError

C3_Witness ==
    /\ Answered("state_probabilities") /\ Valid
    /\ params.lambda_rate = params.c_servers * params.mu_rate
    /\ response = UnstableSystemError

\* C4: each of the three operations, called with lambda <= 0 or mu <= 0,
\* ends in InvalidParameterError whatever c, horizon and max_states are.
C4_NonPositiveRateRejected ==
    (pc = "done" /\ (params.lambda_rate <= 0 \/ params.mu_rate <= 0)) =>
        response = InvalidParameterError

\* C5: for valid parameters with rho < 1, analyze answers with p0 in (0, 1],
\* erlang_c in [0, 1], lq >= 0, wq >= 0 and l = lq + a, a = lambda / mu.
StableMetricsSound ==
    /\ response = Ok
    /\ RLt(Zero, metrics.p0) /\ RLe(metrics.p0, One)
    /\ RLe(Zero, metrics.erlang_c) /\ RLe(metrics.erlang_c, One)
    /\ RLe(Zero, metrics.lq)
    /\ RLe(Zero, metrics.wq)
    /\ metrics.l = RAdd(metrics.lq, Rat(params.lambda_rate, params.mu_rate))

C5_StableMetrics ==
    (Answered("analyze") /\ Valid /\ RhoBelowOne) => StableMetricsSound

\* The same for the server counts whose factorial fits a double.
StableMetricsWithinDoubleRange ==
    (Answered("analyze") /\ Valid /\ RhoBelowOne /\ params.c_servers <= MaxFactorialArg)
        => StableMetricsSound

\* The sum of the first k probabilities.
RECURSIVE PartialSum(_)
PartialSum(k) == IF k = 0 THEN Zero ELSE RAdd(PartialSum(k - 1), probabilities[k].probability)

\* C6: for a stable system, stateDistribution returns max_states + 1 entries
\* for the states 0..max_states in increasing order, each probability is
\* non-negative, and the partial sums are non-decreasing and at most 1.
DistributionSound ==
    /\ response = Ok
    /\ Len(probabilities) = params.max_states + 1
    /\ \A i \in 1..Len(probabilities) :
          /\ probabilities[i].state = i - 1
          /\ RLe(Zero, probabilities[i].probability)
          /\ RLe(PartialSum(i - 1), PartialSum(i))
          /\ RLe(PartialSum(i), One)

C6_Distribution ==
    (Answered("state_probabilities") /\ Valid /\ RhoBelowOne) => DistributionSound

\* The same for the server counts whose factorial fits a double.
DistributionWithinDoubleRange ==
    (Answered("state_probabilities") /\ Valid /\ RhoBelowOne
        /\ params.c_servers <= MaxFactorialArg) => DistributionSound

\* C7: the random source is an input of the run and nothing an earlier run
\* left behind reaches a later one: a simulation asked again with the same
\* lambda, mu, c and horizon answers with the same number of arrivals and
\* the same waits.
C7_ResultFromInputsAlone ==
    (Answered("simulate") /\ response = Ok /\ prev_run # NoRun
        /\ prev_run.params = params) =>
        /\ sim_result.total_arrivals = prev_run.sim_result.total_arrivals
        /\ sim_result.wait_times_sample = prev_run.sim_result.wait_times_sample

\* The horizon of the simulation in hand.
Horizon == Float(params.simulation_time)

AllBefore(arr, h) == \A i \in 1..Len(arr) : RLt(arr[i], h)
InOrder(arr) == \A i \in 1..(Len(arr) - 1) : RLe(arr[i], arr[i + 1])

\* C8: arrival generation starts at time 0 and accumulates interarrival
\* gaps; it stops as soon as the clock reaches or exceeds the horizon and the
\* arrival crossing it is discarded: every recorded arrival is strictly
\* before the horizon, arrivals are in non-decreasing order, and none is
\* recorded once the clock has reached the horizon.
C8_ArrivalStream ==
    [][/\ (pc = "idle" /\ pc' = "gen") => (current_time' = Zero /\ arrivals' = <<>>)
       /\ (pc = "gen" /\ pc' = "gen") =>
             /\ RLt(current_time, Horizon)
             /\ current_time' =
                    RAdd(current_time, Exponential(Rat(1, params.lambda_rate), rng))
             /\ arrivals' = IF RLt(current_time', Horizon)
                            THEN Append(arrivals, current_time')
                            ELSE arrivals
       /\ (pc = "gen" /\ ~RLt(current_time, Horizon)) => pc' = "serve"
       /\ (op = "simulate" /\ op' = "simulate" /\ ~RLt(current_time, Horizon)) =>
             arrivals' = arrivals
       /\ op' = "simulate" => (AllBefore(arrivals', Horizon') /\ InOrder(arrivals'))
      ]_vars

\* Two arrivals recorded, and the clock stopped exactly on the horizon.
C8_Witness ==
    /\ op = "simulate" /\ pc = "serve"
    /\ Len(arrivals) >= 2
    /\ current_time = Horizon
    /\ RLt(arrivals[Len(arrivals)], current_time)

\* The server a minimal free-time is first found at.
FirstMinimum(busy) ==
    CHOOSE i \in 1..Len(busy) :
        /\ \A j \in 1..Len(busy) : RLe(busy[i], busy[j])
        /\ \A j \in 1..(i - 1) : RLt(busy[i], busy[j])

\* C9: all c free-times start at 0; each arrival, in order, goes to the
\* server with the minimum free-time, the lowest index on a tie; its wait is
\* max(arrival, that free-time) - arrival >= 0; only the chosen server's
\* free-time changes, to service start + service duration; one wait is
\* recorded per arrival, so total_served = total_arrivals.
C9_GreedyAssignment ==
    [][/\ (pc = "gen" /\ pc' = "serve") =>
             /\ Len(servers_busy_until') =
                    (IF params.c_servers > 0 THEN params.c_servers ELSE 0)
             /\ \A i \in 1..Len(servers_busy_until') : servers_busy_until'[i] = Zero
       /\ (pc = "serve" /\ pc' = "serve") =>
             LET arrival == arrivals[Len(wait_times) + 1]
                 chosen == FirstMinimum(servers_busy_until)
                 start == IF RLt(arrival, servers_busy_until[chosen])
                          THEN servers_busy_until[chosen] ELSE arrival
                 duration == Exponential(Rat(1, params.mu_rate), rng)
             IN  /\ wait_times' = Append(wait_times, RSub(start, arrival))
                 /\ RLe(Zero, RSub(start, arrival))
                 /\ servers_busy_until'[chosen] = RAdd(start, duration)
                 /\ \A j \in 1..Len(servers_busy_until) :
                       j # chosen => servers_busy_until'[j] = servers_busy_until[j]
                 /\ Len(servers_busy_until') = Len(servers_busy_until)
       /\ (op' = "simulate" /\ pc' = "done" /\ response' = Ok) =>
             /\ Len(wait_times') = Len(arrivals')
             /\ sim_result'.total_arrivals = Len(arrivals')
             /\ sim_result'.total_served = sim_result'.total_arrivals
      ]_vars

\* A run answered with three arrivals on two or more servers, every server
\* used and one arrival kept waiting.
C9_Witness ==
    /\ Answered("simulate") /\ response = Ok
    /\ params.c_servers >= 2
    /\ sim_result.total_served >= 3
    /\ \A i \in 1..Len(servers_busy_until) : RLt(Zero, servers_busy_until[i])
    /\ \E i \in 1..Len(wait_times) : RLt(Zero, wait_times[i])

\* When the i-th arrival starts service.
StartTime(arr, ws, i) == RAdd(arr[i], ws[i])

\* C10: service is first-come-first-served: service start times are
\* non-decreasing in arrival order, and a customer waits only if every one of
\* the c servers is free later than the customer arrives.
C10_FirstComeFirstServed ==
    [][/\ op' = "simulate" =>
             \A i \in 1..(Len(wait_times') - 1) :
                 RLe(StartTime(arrivals', wait_times', i),
                     StartTime(arrivals', wait_times', i + 1))
       /\ (pc = "serve" /\ Len(wait_times') = Len(wait_times) + 1
             /\ RLt(Zero, wait_times'[Len(wait_times')])) =>
             \A i \in 1..params.c_servers :
                 RLt(arrivals[Len(wait_times) + 1], servers_busy_until[i])
      ]_vars

\* On two or more servers, the first customer is served at once and a later
\* one waits.
C10_Witness ==
    /\ op = "simulate" /\ pc = "serve"
    /\ params.c_servers >= 2
    /\ Len(wait_times) >= 3
    /\ wait_times[1] = Zero
    /\ RLt(Zero, wait_times[Len(wait_times)])

====
